---- MODULE Spec2Model ----
(***************************************************************************)
(* Model of the incremental MIDI parser of src/src/parser.rs together with *)
(* the message algebra of src/src/message.rs.                              *)
(*                                                                         *)
(* The parser's only persistent field is running_status_byte.  The caller  *)
(* owns a byte buffer: bytes arrive one at a time (Feed), the caller hands *)
(* the buffer to Parser::parse (Parse), and then shifts the buffer by the  *)
(* returned bytes_consumed (Shift).  A Rust panic (todo!, unreachable!, a  *)
(* failed assert!, a failed expect/unwrap) is modelled as the result       *)
(* Panic(..): the call returns no outcome and the run stops in             *)
(* pc = "panicked".                                                        *)
(*                                                                         *)
(* A second specification, SpecConcat, runs the caller's loop around two   *)
(* parsers: one is fed a stream A and then a stream B, the other is handed *)
(* A ++ B in one buffer.  A third one, SpecDecode, starts from complete     *)
(* Channel messages over the whole range of data bytes, and from calls of  *)
(* the value constructors and helper methods of message.rs and             *)
(* helper_methods.rs.                                                      *)
(***************************************************************************)
EXTENDS Integers, Sequences, FiniteSets, TLC

VARIABLES
    running_status_byte, \* Parser.running_status_byte : Option<StatusByte>
    buf,                 \* the caller's buffer, the argument of the next parse
    outcome,             \* what the last call of parse returned (or its panic)
    pc,                  \* "ready" | "returned" | "panicked"
    streams,             \* SpecConcat: the two byte streams [A, B]
    incremental,         \* SpecConcat: the caller loop fed A, then B
    onepass,             \* SpecConcat: the caller loop handed A ++ B at once
    call                 \* SpecDecode: a call of a function of message.rs

\* The state of the single-parser machine, and of the concatenation runs.
parser_vars == <<running_status_byte, buf, outcome, pc>>
concat_vars == <<streams, incremental, onepass>>

vars == <<running_status_byte, buf, outcome, pc, streams, incremental, onepass, call>>

(***************************************************************************)
(* Bounds of the model.                                                    *)
(***************************************************************************)
\* Longest buffer the caller submits.
MaxLen == 4

\* Bytes that may arrive as the first byte of an empty buffer: four data
\* bytes, one status byte per Channel nibble (one of them on another
\* channel), and every System status byte 0xF0..0xFF.
FirstBytes == {0, 64, 119, 120} \cup {128, 144, 160, 176, 197, 208, 224} \cup (240..255)

\* Bytes that may arrive behind another byte: the data bytes, a Channel
\* status, EOX and two Real-Time bytes (the classes the code tells apart in a
\* non-leading position).
NextBytes == {0, 64, 119, 120} \cup {144, 247, 248, 255}

(***************************************************************************)
(* Rust's Option.                                                          *)
(***************************************************************************)
None == <<>>
Some(x) == <<x>>

(***************************************************************************)
(* Constants of parser.rs: mod status_nibbles and mod system_status_bytes. *)
(***************************************************************************)
CHANNEL_VOICE_MESSAGE_NOTE_OFF == 8
CHANNEL_VOICE_MESSAGE_NOTE_ON == 9
CHANNEL_VOICE_MESSAGE_POLYPHONIC_KEY_PRESSURE_AFTERTOUCH == 10
CHANNEL_VOICE_MESSAGE_CONTROL_CHANGE_OR_CHANNEL_MODE_MESSAGE == 11
CHANNEL_VOICE_MESSAGE_PROGRAM_CHANGE == 12
CHANNEL_VOICE_MESSAGE_CHANNEL_PRESSURE_AFTERTOUCH == 13
CHANNEL_VOICE_MESSAGE_PITCH_BEND_CHANGE == 14
SYSTEM_MESSAGE == 15

SYSTEM_EXCLUSIVE == 240
SYSTEM_COMMON_MIDI_TIME_QUARTER_FRAME == 241
SYSTEM_COMMON_SONG_POSITION_POINTER == 242
SYSTEM_COMMON_SONG_SELECT == 243
SYSTEM_COMMON_UNDEFINED_1 == 244
SYSTEM_COMMON_UNDEFINED_2 == 245
SYSTEM_COMMON_TUNE_REQUEST == 246
SYSTEM_END_OF_SYSTEM_EXCLUSIVE_FLAG == 247
SYSTEM_REALTIME_TIMING_CLOCK == 248
SYSTEM_REALTIME_UNDEFINED_1 == 249
SYSTEM_REALTIME_START == 250
SYSTEM_REALTIME_CONTINUE == 251
SYSTEM_REALTIME_STOP == 252
SYSTEM_REALTIME_UNDEFINED_2 == 253
SYSTEM_REALTIME_ACTIVE_SENSING == 254
SYSTEM_REALTIME_SYSTEM_RESET == 255

(***************************************************************************)
(* Integer helpers with the width of the Rust types.                       *)
(***************************************************************************)
\* u8 addition; bytes_consumed is a u8.
AddU8(a, b) == (a + b) % 256

\* Bitwise or of two naturals.
RECURSIVE BitOr(_, _)
BitOr(a, b) ==
    IF a = 0 THEN b
    ELSE IF b = 0 THEN a
    ELSE (IF (a % 2 = 1) \/ (b % 2 = 1) THEN 1 ELSE 0) + 2 * BitOr(a \div 2, b \div 2)

\* x << n on a u16.
ShlU16(x, n) == (x * (2 ^ n)) % 65536

(***************************************************************************)
(* A panic: the call does not return.                                      *)
(***************************************************************************)
Panic(what) == [panic |-> what]
IsPanic(r) == "panic" \in DOMAIN r

(***************************************************************************)
(* message.rs: the value domain.                                           *)
(***************************************************************************)
\* u7::Unsigned7::try_from succeeds
Unsigned7_ok(value) == value <= 127

\* u14::Unsigned14::try_from succeeds
Unsigned14_ok(value) == value[1] <= 127 /\ value[2] <= 127

\* Unsigned14 assembled with the first wire byte as the high septet
Unsigned14_MsbFirst(value) == BitOr(ShlU16(value[1], 7), value[2])

\* u14::Unsigned14::try_from: value = [lsb, msb] as on the wire
Unsigned14(value) == BitOr(ShlU16(value[2], 7), value[1])

\* MidiChannelId::try_from succeeds
MidiChannelId_ok(value) == value < 16

\* ChannelModeMessage: TryFromPrimitive over the repr(u8) discriminants
ChannelModeMessage ==
    [x \in 120..127 |->
        CASE x = 120 -> "AllSoundOff"
          [] x = 121 -> "ResetAllControllers"
          [] x = 122 -> "LocalControl"
          [] x = 123 -> "AllNotesOff"
          [] x = 124 -> "OmniOff"
          [] x = 125 -> "OmniOn"
          [] x = 126 -> "MonoOn"
          [] x = 127 -> "PolyOn"]

\* SystemRealTimeMessage: the repr(u8) discriminants
SystemRealTimeMessage ==
    [x \in 248..255 |->
        CASE x = 248 -> "TimingClock"
          [] x = 249 -> "Undefined1"
          [] x = 250 -> "Start"
          [] x = 251 -> "Continue"
          [] x = 252 -> "Stop"
          [] x = 253 -> "Undefined2"
          [] x = 254 -> "ActiveSensing"
          [] x = 255 -> "SystemReset"]

\* Message::Channel(ChannelMessage { channel, message: ChannelVoice(voice) })
ChannelVoice(channel, voice) ==
    [tag |-> "Channel", channel |-> channel,
     message |-> [tag |-> "ChannelVoice", voice |-> voice]]

\* Message::Channel(ChannelMessage { channel, message: ChannelMode(mode) })
ChannelMode(channel, mode) ==
    [tag |-> "Channel", channel |-> channel,
     message |-> [tag |-> "ChannelMode", mode |-> mode]]

\* Message::System(SystemMessage::SystemRealTime(rt))
SystemRealTime(rt) ==
    [tag |-> "System", message |-> [tag |-> "SystemRealTime", rt |-> rt]]

(***************************************************************************)
(* parser.rs: MessageParseOutcome and MessageParseOutcomeStatus.           *)
(***************************************************************************)
MessageParseOutcome(bytes_consumed, status) ==
    [bytes_consumed |-> bytes_consumed, status |-> status]

Message(message) == [tag |-> "Message", message |-> message]
NeedMoreBytes(more) == [tag |-> "NeedMoreBytes", more |-> more]
InterruptingSystemRealTimeMessage(message, byte_index) ==
    [tag |-> "InterruptingSystemRealTimeMessage",
     message |-> message, byte_index |-> byte_index]
UnexpectedDataByte == [tag |-> "UnexpectedDataByte"]
UnexpectedEox == [tag |-> "UnexpectedEox"]
BrokenMessage == [tag |-> "BrokenMessage"]

\* No call has returned yet (or the caller has dealt with the last outcome).
NoOutcome == [tag |-> "NoOutcome"]

(***************************************************************************)
(* parser.rs: enum DataBytes.                                              *)
(***************************************************************************)
DataBytes_Bytes(bytes) == [tag |-> "Bytes", bytes |-> bytes]
DataBytes_NeedMore(more) == [tag |-> "NeedMore", more |-> more]
DataBytes_InterruptingStatusByte(index) ==
    [tag |-> "InterruptingStatusByte", index |-> index]

(***************************************************************************)
(* parser.rs: free functions.                                              *)
(***************************************************************************)
\* byte & 0b10000000 != 0
is_status_byte(byte) == (byte \div 128) % 2 # 0

\* 0-based position of the first status byte among bytes, or None
FirstStatusIndex(bytes) ==
    IF \E i \in 1..Len(bytes) : is_status_byte(bytes[i])
    THEN Some((CHOOSE i \in 1..Len(bytes) :
                  /\ is_status_byte(bytes[i])
                  /\ \A j \in 1..(i - 1) : ~is_status_byte(bytes[j])) - 1)
    ELSE None

\* get_data_bytes with the slice &buf[0..num] widened to the whole buffer
get_data_bytes_WholeBuffer(b, num) ==
    IF num >= Len(b) /\ num - Len(b) > 0
    THEN DataBytes_NeedMore(Some(num - Len(b)))
    ELSE LET found == FirstStatusIndex(b)
         IN  IF found # None
             THEN DataBytes_InterruptingStatusByte(found[1])
             ELSE DataBytes_Bytes(b)

\* get_data_bytes that asks a short buffer for all num bytes again
get_data_bytes_NeedsAll(b, num) ==
    IF num >= Len(b) /\ num - Len(b) > 0
    THEN DataBytes_NeedMore(Some(num))
    ELSE LET bytes == SubSeq(b, 1, num)
             found == FirstStatusIndex(bytes)
         IN  IF found # None
             THEN DataBytes_InterruptingStatusByte(found[1])
             ELSE DataBytes_Bytes(bytes)

\* fn get_data_bytes(buf, num): the length check comes first, the scan for a
\* status byte looks at the first num bytes only
get_data_bytes(b, num) ==
    IF num >= Len(b) /\ num - Len(b) > 0
    THEN DataBytes_NeedMore(Some(num - Len(b)))
    ELSE LET bytes == SubSeq(b, 1, num)
             found == FirstStatusIndex(bytes)
         IN  IF found # None
             THEN DataBytes_InterruptingStatusByte(found[1])
             ELSE DataBytes_Bytes(bytes)

\* get_sysex_bytes that asks an unterminated SysEx for one more byte
get_sysex_bytes_NeedsOne(b) ==
    LET found == FirstStatusIndex(b)
    IN  IF found = None
        THEN DataBytes_NeedMore(Some(1))
        ELSE IF b[found[1] + 1] = SYSTEM_END_OF_SYSTEM_EXCLUSIVE_FLAG
             THEN DataBytes_Bytes(SubSeq(b, 1, found[1] + 1))
             ELSE DataBytes_InterruptingStatusByte(found[1])

\* fn get_sysex_bytes(buf): bytes includes the EOX marker
get_sysex_bytes(b) ==
    LET found == FirstStatusIndex(b)
    IN  IF found = None
        THEN DataBytes_NeedMore(None)
        ELSE IF b[found[1] + 1] = SYSTEM_END_OF_SYSTEM_EXCLUSIVE_FLAG
             THEN DataBytes_Bytes(SubSeq(b, 1, found[1] + 1))
             ELSE DataBytes_InterruptingStatusByte(found[1])

(***************************************************************************)
(* parser.rs: impl StatusByte.  self is the u8 inside StatusByte.          *)
(***************************************************************************)
\* StatusByte::data_bytes
data_bytes(self, b) ==
    LET status_nibble == self \div 16
    IN  CASE status_nibble = CHANNEL_VOICE_MESSAGE_NOTE_OFF -> get_data_bytes(b, 2)
          [] status_nibble = CHANNEL_VOICE_MESSAGE_NOTE_ON -> get_data_bytes(b, 2)
          [] status_nibble = CHANNEL_VOICE_MESSAGE_POLYPHONIC_KEY_PRESSURE_AFTERTOUCH -> get_data_bytes(b, 2)
          [] status_nibble = CHANNEL_VOICE_MESSAGE_CONTROL_CHANGE_OR_CHANNEL_MODE_MESSAGE -> get_data_bytes(b, 2)
          [] status_nibble = CHANNEL_VOICE_MESSAGE_PROGRAM_CHANGE -> get_data_bytes(b, 1)
          [] status_nibble = CHANNEL_VOICE_MESSAGE_CHANNEL_PRESSURE_AFTERTOUCH -> get_data_bytes(b, 1)
          [] status_nibble = CHANNEL_VOICE_MESSAGE_PITCH_BEND_CHANGE -> get_data_bytes(b, 2)
          [] status_nibble = SYSTEM_MESSAGE ->
                CASE self = SYSTEM_COMMON_MIDI_TIME_QUARTER_FRAME -> get_data_bytes(b, 1)
                  [] self = SYSTEM_COMMON_SONG_POSITION_POINTER -> get_data_bytes(b, 2)
                  [] self = SYSTEM_COMMON_SONG_SELECT -> get_data_bytes(b, 1)
                  [] self = SYSTEM_COMMON_UNDEFINED_1 -> get_data_bytes(b, 0)
                  [] self = SYSTEM_COMMON_UNDEFINED_2 -> get_data_bytes(b, 0)
                  [] self = SYSTEM_COMMON_TUNE_REQUEST -> get_data_bytes(b, 0)
                  [] self = SYSTEM_REALTIME_TIMING_CLOCK -> get_data_bytes(b, 0)
                  [] self = SYSTEM_REALTIME_UNDEFINED_1 -> get_data_bytes(b, 0)
                  [] self = SYSTEM_REALTIME_START -> get_data_bytes(b, 0)
                  [] self = SYSTEM_REALTIME_CONTINUE -> get_data_bytes(b, 0)
                  [] self = SYSTEM_REALTIME_STOP -> get_data_bytes(b, 0)
                  [] self = SYSTEM_REALTIME_UNDEFINED_2 -> get_data_bytes(b, 0)
                  [] self = SYSTEM_REALTIME_ACTIVE_SENSING -> get_data_bytes(b, 0)
                  [] self = SYSTEM_REALTIME_SYSTEM_RESET -> get_data_bytes(b, 0)
                  [] self = SYSTEM_END_OF_SYSTEM_EXCLUSIVE_FLAG -> get_data_bytes(b, 0)
                  [] self = SYSTEM_EXCLUSIVE -> get_sysex_bytes(b)
                  [] OTHER -> Panic("unreachable")
          [] OTHER -> Panic("unreachable")

\* A Real-Time arm of parse_system_message
RealTimeArm(bytes, rt) ==
    IF Len(bytes) # 0 THEN Panic("assert_eq")
    ELSE MessageParseOutcome(0, Message(SystemRealTime(rt)))

\* StatusByte::parse_system_message
parse_system_message(self, bytes) ==
    CASE self = SYSTEM_COMMON_MIDI_TIME_QUARTER_FRAME ->
            IF Len(bytes) # 1 THEN Panic("assert_eq") ELSE Panic("todo")
      [] self = SYSTEM_COMMON_SONG_POSITION_POINTER ->
            IF Len(bytes) # 2 THEN Panic("assert_eq") ELSE Panic("todo")
      [] self = SYSTEM_COMMON_SONG_SELECT ->
            IF Len(bytes) # 1 THEN Panic("assert_eq") ELSE Panic("todo")
      [] self = SYSTEM_COMMON_UNDEFINED_1 ->
            IF Len(bytes) # 0 THEN Panic("assert_eq") ELSE Panic("todo")
      [] self = SYSTEM_COMMON_UNDEFINED_2 ->
            IF Len(bytes) # 0 THEN Panic("assert_eq") ELSE Panic("todo")
      [] self = SYSTEM_COMMON_TUNE_REQUEST ->
            IF Len(bytes) # 0 THEN Panic("assert_eq") ELSE Panic("todo")
      [] self = SYSTEM_REALTIME_TIMING_CLOCK -> RealTimeArm(bytes, "TimingClock")
      [] self = SYSTEM_REALTIME_UNDEFINED_1 -> RealTimeArm(bytes, "Undefined1")
      [] self = SYSTEM_REALTIME_START -> RealTimeArm(bytes, "Start")
      [] self = SYSTEM_REALTIME_CONTINUE -> RealTimeArm(bytes, "Continue")
      [] self = SYSTEM_REALTIME_STOP -> RealTimeArm(bytes, "Stop")
      [] self = SYSTEM_REALTIME_UNDEFINED_2 -> RealTimeArm(bytes, "Undefined2")
      [] self = SYSTEM_REALTIME_ACTIVE_SENSING -> RealTimeArm(bytes, "ActiveSensing")
      [] self = SYSTEM_REALTIME_SYSTEM_RESET -> RealTimeArm(bytes, "SystemReset")
      [] self = SYSTEM_END_OF_SYSTEM_EXCLUSIVE_FLAG ->
            IF Len(bytes) # 0 THEN Panic("assert_eq")
            ELSE MessageParseOutcome(0, UnexpectedEox)
      [] self = SYSTEM_EXCLUSIVE ->
            IF bytes = <<>> \/ bytes[Len(bytes)] # SYSTEM_END_OF_SYSTEM_EXCLUSIVE_FLAG
            THEN Panic("assert_eq") ELSE Panic("todo")
      [] OTHER -> Panic("unreachable")

\* The arms of parse_exact_number_of_bytes, one per status nibble
NoteOffArm(channel, bytes) ==
    IF Len(bytes) # 2 THEN Panic("assert_eq")
    ELSE IF ~(Unsigned7_ok(bytes[1]) /\ Unsigned7_ok(bytes[2])) THEN Panic("try from")
    ELSE MessageParseOutcome(2, Message(ChannelVoice(channel,
            [tag |-> "NoteOff", note_number |-> bytes[1], velocity |-> bytes[2]])))

NoteOnArm(channel, bytes) ==
    IF Len(bytes) # 2 THEN Panic("assert_eq")
    ELSE IF ~(Unsigned7_ok(bytes[1]) /\ Unsigned7_ok(bytes[2])) THEN Panic("try from")
    ELSE MessageParseOutcome(2, Message(ChannelVoice(channel,
            [tag |-> "NoteOn", note_number |-> bytes[1], velocity |-> bytes[2]])))

PolyphonicKeyPressureAftertouchArm(channel, bytes) ==
    IF Len(bytes) # 2 THEN Panic("assert_eq")
    ELSE IF ~(Unsigned7_ok(bytes[1]) /\ Unsigned7_ok(bytes[2])) THEN Panic("try from")
    ELSE MessageParseOutcome(2, Message(ChannelVoice(channel,
            [tag |-> "PolyphonicKeyPressureAftertouch",
             note_number |-> bytes[1], value |-> bytes[2]])))

\* The arm with controller 120 taken for a Control Change
ControlChangeOrChannelModeArm_From121(channel, bytes) ==
    IF Len(bytes) # 2 THEN Panic("assert_eq")
    ELSE LET is_mode_message == bytes[1] > 120 /\ bytes[1] <= 127
         IN  IF ~is_mode_message
             THEN IF ~(Unsigned7_ok(bytes[1]) /\ Unsigned7_ok(bytes[2]))
                  THEN Panic("try from")
                  ELSE MessageParseOutcome(2, Message(ChannelVoice(channel,
                          [tag |-> "ControlChange",
                           control_number |-> bytes[1], value |-> bytes[2]])))
             ELSE MessageParseOutcome(2, Message(ChannelMode(channel,
                     ChannelModeMessage[bytes[1]])))

ControlChangeOrChannelModeArm(channel, bytes) ==
    IF Len(bytes) # 2 THEN Panic("assert_eq")
    ELSE LET is_mode_message == bytes[1] >= 120 /\ bytes[1] <= 127
         IN  IF ~is_mode_message
             THEN IF ~(Unsigned7_ok(bytes[1]) /\ Unsigned7_ok(bytes[2]))
                  THEN Panic("try from")
                  ELSE MessageParseOutcome(2, Message(ChannelVoice(channel,
                          [tag |-> "ControlChange",
                           control_number |-> bytes[1], value |-> bytes[2]])))
             ELSE MessageParseOutcome(2, Message(ChannelMode(channel,
                     ChannelModeMessage[bytes[1]])))

ProgramChangeArm(channel, bytes) ==
    IF Len(bytes) # 1 THEN Panic("assert_eq")
    ELSE IF ~Unsigned7_ok(bytes[1]) THEN Panic("try from")
    ELSE MessageParseOutcome(1, Message(ChannelVoice(channel,
            [tag |-> "ProgramChange", program_number |-> bytes[1]])))

ChannelPressureAftertouchArm(channel, bytes) ==
    IF Len(bytes) # 1 THEN Panic("assert_eq")
    ELSE IF ~Unsigned7_ok(bytes[1]) THEN Panic("try from")
    ELSE MessageParseOutcome(1, Message(ChannelVoice(channel,
            [tag |-> "ChannelPressureAftertouch", value |-> bytes[1]])))

PitchBendChangeArm(channel, bytes) ==
    IF Len(bytes) # 2 THEN Panic("assert_eq")
    ELSE IF ~Unsigned14_ok(bytes) THEN Panic("try from")
    ELSE MessageParseOutcome(2, Message(ChannelVoice(channel,
            [tag |-> "PitchBendChange", value |-> Unsigned14(bytes)])))

\* StatusByte::parse_exact_number_of_bytes
parse_exact_number_of_bytes(self, bytes) ==
    IF self # SYSTEM_EXCLUSIVE /\ \E i \in 1..Len(bytes) : is_status_byte(bytes[i])
    THEN Panic("assert")
    ELSE
    LET status_nibble == self \div 16
        channel == self % 16
    IN  IF ~MidiChannelId_ok(channel) THEN Panic("try from")
        ELSE
        CASE status_nibble = CHANNEL_VOICE_MESSAGE_NOTE_OFF ->
                NoteOffArm(channel, bytes)
          [] status_nibble = CHANNEL_VOICE_MESSAGE_NOTE_ON ->
                NoteOnArm(channel, bytes)
          [] status_nibble = CHANNEL_VOICE_MESSAGE_POLYPHONIC_KEY_PRESSURE_AFTERTOUCH ->
                PolyphonicKeyPressureAftertouchArm(channel, bytes)
          [] status_nibble = CHANNEL_VOICE_MESSAGE_CONTROL_CHANGE_OR_CHANNEL_MODE_MESSAGE ->
                ControlChangeOrChannelModeArm(channel, bytes)
          [] status_nibble = CHANNEL_VOICE_MESSAGE_PROGRAM_CHANGE ->
                ProgramChangeArm(channel, bytes)
          [] status_nibble = CHANNEL_VOICE_MESSAGE_CHANNEL_PRESSURE_AFTERTOUCH ->
                ChannelPressureAftertouchArm(channel, bytes)
          [] status_nibble = CHANNEL_VOICE_MESSAGE_PITCH_BEND_CHANGE ->
                PitchBendChangeArm(channel, bytes)
          [] status_nibble = SYSTEM_MESSAGE ->
                parse_system_message(self, bytes)
          [] OTHER -> Panic("unreachable")

\* StatusByte::parse: the match on data_bytes, here found (parser.rs 204-219)
MatchDataBytes(self, found) ==
        IF IsPanic(found) THEN found
        ELSE CASE found.tag = "Bytes" ->
                    parse_exact_number_of_bytes(self, found.bytes)
               [] found.tag = "NeedMore" ->
                    MessageParseOutcome(0, NeedMoreBytes(found.more))
               [] found.tag = "InterruptingStatusByte" ->
                    Panic("todo")

\* StatusByte::parse
StatusByte_parse(self, b) == MatchDataBytes(self, data_bytes(self, b))

(***************************************************************************)
(* parser.rs: impl Parser.                                                 *)
(***************************************************************************)
\* What a call of Parser::parse does: the new running status and the result
\* (a MessageParseOutcome, or a panic).
ParseResult(rs, result) == [running_status_byte |-> rs, result |-> result]

\* Parser::parse, first byte is a status byte: the match on the outcome of
\* status_byte.parse(remaining_bytes), here inner (parser.rs 75-131)
MatchExplicitStatus(rs, status_byte, remaining_bytes, inner) ==
        IF IsPanic(inner) THEN ParseResult(rs, inner)
        ELSE IF ~(inner.bytes_consumed <= Len(remaining_bytes))
        THEN ParseResult(rs, Panic("assert"))
        ELSE
        CASE inner.status.tag = "Message" /\ inner.status.message.tag = "Channel" ->
                ParseResult(Some(status_byte),
                    MessageParseOutcome(AddU8(1, inner.bytes_consumed), inner.status))
          [] inner.status.tag = "Message" /\ inner.status.message.tag = "System"
                /\ inner.status.message.message.tag = "SystemRealTime" ->
                ParseResult(rs,
                    MessageParseOutcome(AddU8(1, inner.bytes_consumed), inner.status))
          [] inner.status.tag = "Message" /\ inner.status.message.tag = "System"
                /\ inner.status.message.message.tag # "SystemRealTime" ->
                ParseResult(None,
                    MessageParseOutcome(AddU8(1, inner.bytes_consumed), inner.status))
          [] inner.status.tag = "NeedMoreBytes" ->
                IF inner.bytes_consumed # 0 THEN ParseResult(rs, Panic("assert_eq"))
                ELSE ParseResult(rs, inner)
          [] inner.status.tag = "InterruptingSystemRealTimeMessage" ->
                IF inner.bytes_consumed # 0 THEN ParseResult(rs, Panic("assert_eq"))
                ELSE ParseResult(rs, MessageParseOutcome(0,
                        InterruptingSystemRealTimeMessage(inner.status.message,
                            1 + inner.status.byte_index)))
          [] inner.status.tag = "UnexpectedDataByte" ->
                ParseResult(rs, Panic("unreachable"))
          [] inner.status.tag = "UnexpectedEox" ->
                ParseResult(None,
                    MessageParseOutcome(AddU8(1, inner.bytes_consumed), inner.status))
          [] inner.status.tag = "BrokenMessage" ->
                ParseResult(None,
                    MessageParseOutcome(AddU8(1, inner.bytes_consumed), inner.status))

\* ParseExplicitStatus with running status cancelled by every status byte,
\* Real-Time included
ParseExplicitStatus_ClearsFirst(rs, b) ==
    MatchExplicitStatus(None, Head(b), Tail(b), StatusByte_parse(Head(b), Tail(b)))

\* ParseExplicitStatus with the status byte remembered as running status
\* before its message is decoded, whatever kind of status byte it is
ParseExplicitStatus_RemembersFirst(rs, b) ==
    MatchExplicitStatus(Some(Head(b)), Head(b), Tail(b),
                        StatusByte_parse(Head(b), Tail(b)))

\* r with running status rs kept when r reports UnexpectedEox
KeepOnEox(rs, r) ==
    IF ~IsPanic(r.result) /\ r.result.status.tag = "UnexpectedEox"
    THEN ParseResult(rs, r.result)
    ELSE r

\* ParseExplicitStatus with running status left alone by a stray EOX
ParseExplicitStatus_KeepsOnEox(rs, b) ==
    KeepOnEox(rs, MatchExplicitStatus(rs, Head(b), Tail(b),
                                      StatusByte_parse(Head(b), Tail(b))))

\* r with the whole buffer b counted as consumed when r is a Message
ConsumeAll(b, r) ==
    IF ~IsPanic(r.result) /\ r.result.status.tag = "Message"
    THEN ParseResult(r.running_status_byte,
                     MessageParseOutcome(AddU8(0, Len(b)), r.result.status))
    ELSE r

\* ParseExplicitStatus that consumes the bytes behind a decoded message too
ParseExplicitStatus_ConsumesAll(rs, b) ==
    ConsumeAll(b, MatchExplicitStatus(rs, Head(b), Tail(b),
                                      StatusByte_parse(Head(b), Tail(b))))

\* Parser::parse, first byte is a status byte (parser.rs 71-131)
ParseExplicitStatus(rs, b) ==
    MatchExplicitStatus(rs, Head(b), Tail(b), StatusByte_parse(Head(b), Tail(b)))

\* Parser::parse, first byte is a data byte and running status is set: the
\* match on the outcome of status_byte.parse(remaining_bytes), here inner
\* (parser.rs 136-180)
MatchRunningStatus(rs, remaining_bytes, inner) ==
        IF IsPanic(inner) THEN ParseResult(rs, inner)
        ELSE IF ~(inner.bytes_consumed <= Len(remaining_bytes))
        THEN ParseResult(rs, Panic("assert"))
        ELSE
        CASE inner.status.tag = "Message" /\ inner.status.message.tag = "Channel" ->
                ParseResult(rs,
                    MessageParseOutcome(inner.bytes_consumed, inner.status))
          [] inner.status.tag = "Message" /\ inner.status.message.tag # "Channel" ->
                ParseResult(rs, Panic("unreachable"))
          [] inner.status.tag = "NeedMoreBytes" ->
                IF inner.bytes_consumed # 0 THEN ParseResult(rs, Panic("assert_eq"))
                ELSE ParseResult(rs, inner)
          [] inner.status.tag = "InterruptingSystemRealTimeMessage" ->
                IF inner.bytes_consumed # 0 THEN ParseResult(rs, Panic("assert_eq"))
                ELSE ParseResult(rs, MessageParseOutcome(0,
                        InterruptingSystemRealTimeMessage(inner.status.message,
                            inner.status.byte_index)))
          [] inner.status.tag = "UnexpectedDataByte" ->
                ParseResult(rs, Panic("unreachable"))
          [] inner.status.tag = "UnexpectedEox" ->
                ParseResult(None,
                    MessageParseOutcome(inner.bytes_consumed, inner.status))
          [] inner.status.tag = "BrokenMessage" ->
                ParseResult(None,
                    MessageParseOutcome(inner.bytes_consumed, inner.status))

\* ParseRunningStatus with the arms of the explicit-status branch, which count
\* the status byte in bytes_consumed
ParseRunningStatus_CountsStatus(rs, b) ==
    MatchExplicitStatus(rs, rs[1], b, StatusByte_parse(rs[1], b))

\* Parser::parse, first byte is a data byte and running status is set
\* (parser.rs 132-180)
ParseRunningStatus(rs, b) ==
    MatchRunningStatus(rs, b, StatusByte_parse(rs[1], b))

\* Parser::parse with a stray data byte reported but not consumed
Parser_parse_KeepsDataByte(rs, b) ==
    IF b = <<>>
    THEN ParseResult(rs, MessageParseOutcome(0, NeedMoreBytes(None)))
    ELSE IF is_status_byte(Head(b)) THEN ParseExplicitStatus(rs, b)
    ELSE IF rs # None THEN ParseRunningStatus(rs, b)
    ELSE ParseResult(rs, MessageParseOutcome(0, UnexpectedDataByte))

\* The number of data bytes at the head of b
RECURSIVE LeadingDataBytes(_)
LeadingDataBytes(b) ==
    IF b = <<>> \/ is_status_byte(Head(b)) THEN 0
    ELSE 1 + LeadingDataBytes(Tail(b))

\* Parser::parse with a run of stray data bytes reported and consumed as one
Parser_parse_SkipsDataRun(rs, b) ==
    IF b = <<>>
    THEN ParseResult(rs, MessageParseOutcome(0, NeedMoreBytes(None)))
    ELSE IF is_status_byte(Head(b)) THEN ParseExplicitStatus(rs, b)
    ELSE IF rs # None THEN ParseRunningStatus(rs, b)
    ELSE ParseResult(rs, MessageParseOutcome(LeadingDataBytes(b), UnexpectedDataByte))

\* Parser::parse with running status forgotten on an empty buffer
Parser_parse_EmptyClears(rs, b) ==
    IF b = <<>>
    THEN ParseResult(None, MessageParseOutcome(0, NeedMoreBytes(None)))
    ELSE IF is_status_byte(Head(b)) THEN ParseExplicitStatus(rs, b)
    ELSE IF rs # None THEN ParseRunningStatus(rs, b)
    ELSE ParseResult(rs, MessageParseOutcome(1, UnexpectedDataByte))

\* Parser::parse(&mut self, buf) with self.running_status_byte = rs
Parser_parse(rs, b) ==
    IF b = <<>>
    THEN ParseResult(rs, MessageParseOutcome(0, NeedMoreBytes(None)))
    ELSE LET first_byte == Head(b)
             first_byte_is_status_byte == is_status_byte(first_byte)
         IN  IF first_byte_is_status_byte THEN ParseExplicitStatus(rs, b)
             ELSE IF rs # None THEN ParseRunningStatus(rs, b)
             ELSE ParseResult(rs, MessageParseOutcome(1, UnexpectedDataByte))

(***************************************************************************)
(* The state machine.                                                      *)
(***************************************************************************)
\* No caller loop is running (the value of the SpecConcat variables in Spec).
Idle == [pc |-> "idle"]

\* Parser::new(), an empty buffer, no call made yet
Init ==
    /\ running_status_byte = None
    /\ buf = <<>>
    /\ outcome = NoOutcome
    /\ pc = "ready"
    /\ streams = Idle
    /\ incremental = Idle
    /\ onepass = Idle
    /\ call = Idle

\* One more byte arrives from the wire and is appended to the caller's buffer.
Feed(byte) ==
    /\ pc = "ready"
    /\ Len(buf) < MaxLen
    /\ byte \in (IF buf = <<>> THEN FirstBytes ELSE NextBytes)
    /\ buf' = Append(buf, byte)
    /\ UNCHANGED <<running_status_byte, outcome, pc>>
    /\ UNCHANGED concat_vars
    /\ UNCHANGED call

\* The caller calls parser.parse(&buf).
Parse ==
    /\ pc = "ready"
    /\ LET r == Parser_parse(running_status_byte, buf)
       IN  /\ running_status_byte' = r.running_status_byte
           /\ outcome' = r.result
           /\ pc' = IF IsPanic(r.result) THEN "panicked" ELSE "returned"
    /\ UNCHANGED buf
    /\ UNCHANGED concat_vars
    /\ UNCHANGED call

\* buf without the byte at 0-based position k
RemoveAt(b, k) == SubSeq(b, 1, k) \o SubSeq(b, k + 2, Len(b))

\* The caller acts on the outcome: it shifts its buffer by bytes_consumed and,
\* on an interrupting Real-Time message, removes the byte at byte_index.
Shift ==
    /\ pc = "returned"
    /\ LET shifted == SubSeq(buf, outcome.bytes_consumed + 1, Len(buf))
       IN  buf' = IF outcome.status.tag = "InterruptingSystemRealTimeMessage"
                  THEN RemoveAt(shifted, outcome.status.byte_index)
                  ELSE shifted
    /\ outcome' = NoOutcome
    /\ pc' = "ready"
    /\ UNCHANGED running_status_byte
    /\ UNCHANGED concat_vars
    /\ UNCHANGED call

Next ==
    \/ \E byte \in FirstBytes \cup NextBytes : Feed(byte)
    \/ Parse
    \/ Shift

Spec == Init /\ [][Next]_vars

(***************************************************************************)
(* The caller's loop around two parsers: concatenation of streams.         *)
(***************************************************************************)
\* Longest stream A and longest stream B.
MaxA == 3
MaxB == 2

\* Bytes of the streams: a data byte, a Channel status with two data bytes
\* and one with one, EOX and a Real-Time byte.
StreamBytes == {64, 144, 197, 247, 248}

StreamsUpTo(n) == UNION {[1..k -> StreamBytes] : k \in 0..n}

\* The caller's buffer after it acted on a returned outcome o: bytes_consumed
\* bytes dropped and, on an interrupting Real-Time message, the byte at
\* byte_index removed.
AfterOutcome(b, o) ==
    IF o.status.tag = "InterruptingSystemRealTimeMessage"
    THEN RemoveAt(SubSeq(b, o.bytes_consumed + 1, Len(b)), o.status.byte_index)
    ELSE SubSeq(b, o.bytes_consumed + 1, Len(b))

\* The messages the caller has received once it got outcome o.
EmittedWith(emitted, o) ==
    IF o.status.tag = "Message" THEN Append(emitted, o.status.message)
    ELSE IF o.status.tag = "InterruptingSystemRealTimeMessage"
    THEN Append(emitted, SystemRealTime(o.status.message))
    ELSE emitted

\* A caller loop: its parser's running status, its buffer, the messages it
\* has received, and where it is: "running" (about to call parse),
\* "waiting" (told NeedMoreBytes, waiting for I/O) or "panicked".
\* delivered counts the streams put into the buffer; boundary records
\* whether the buffer was empty whenever a further stream was delivered.
Driver(rs, b, emitted, at, delivered, boundary) ==
    [running_status_byte |-> rs, buf |-> b, emitted |-> emitted, pc |-> at,
     delivered |-> delivered, boundary |-> boundary]

\* One turn of the loop of driver d, r being what parse returned for it.
TurnWith(d, r) ==
    IF IsPanic(r.result)
    THEN Driver(r.running_status_byte, d.buf, d.emitted, "panicked",
                d.delivered, d.boundary)
    ELSE IF r.result.status.tag = "NeedMoreBytes"
    THEN Driver(r.running_status_byte, AfterOutcome(d.buf, r.result), d.emitted,
                "waiting", d.delivered, d.boundary)
    ELSE Driver(r.running_status_byte, AfterOutcome(d.buf, r.result),
                EmittedWith(d.emitted, r.result), "running",
                d.delivered, d.boundary)

\* The loop calls parser.parse(&buf) and acts on the outcome.
Turn(d) == TurnWith(d, Parser_parse(d.running_status_byte, d.buf))

\* The loop has come to its end: it panicked, or it waits for bytes and
\* every stream has been delivered.
Finished(d, last) == d.pc = "panicked" \/ (d.pc = "waiting" /\ d.delivered = last)

\* Two fresh parsers; A is in the buffer of the first, A ++ B in the buffer
\* of the second.
InitConcat ==
    /\ running_status_byte = None
    /\ buf = <<>>
    /\ outcome = NoOutcome
    /\ pc = "ready"
    /\ \E A \in StreamsUpTo(MaxA), B \in StreamsUpTo(MaxB) :
          /\ streams = [A |-> A, B |-> B]
          /\ incremental = Driver(None, A, <<>>, "running", 1, TRUE)
          /\ onepass = Driver(None, A \o B, <<>>, "running", 1, TRUE)
    /\ call = Idle

\* The incremental loop takes a turn.
IncrementalTurn ==
    /\ incremental.pc = "running"
    /\ incremental' = Turn(incremental)
    /\ UNCHANGED <<streams, onepass>>
    /\ UNCHANGED parser_vars
    /\ UNCHANGED call

\* The incremental loop waits for I/O and stream B arrives behind what is
\* left of A in its buffer.
DeliverB ==
    /\ incremental.pc = "waiting"
    /\ incremental.delivered = 1
    /\ incremental' = Driver(incremental.running_status_byte,
                             incremental.buf \o streams.B, incremental.emitted,
                             "running", 2, incremental.buf = <<>>)
    /\ UNCHANGED <<streams, onepass>>
    /\ UNCHANGED parser_vars
    /\ UNCHANGED call

\* The one-pass loop takes a turn (the two parsers share nothing, so the
\* one-pass loop is run after the incremental one).
OnePassTurn ==
    /\ Finished(incremental, 2)
    /\ onepass.pc = "running"
    /\ onepass' = Turn(onepass)
    /\ UNCHANGED <<streams, incremental>>
    /\ UNCHANGED parser_vars
    /\ UNCHANGED call

NextConcat ==
    \/ IncrementalTurn
    \/ DeliverB
    \/ OnePassTurn

SpecConcat == InitConcat /\ [][NextConcat]_vars

(***************************************************************************)
(* message.rs and helper_methods.rs: value constructors and helper methods *)
(* and the specification that calls them.                                  *)
(***************************************************************************)
\* anyhow::Result of a value constructor
Ok(value) == [ok |-> value]
Err == [err |-> "out of range"]

\* u14::Unsigned14::try_from(value: [u8; 2])
Unsigned14_try_from(value) ==
    IF Unsigned14_ok(value) THEN Ok(Unsigned14(value)) ELSE Err

\* should_note_on that takes every NoteOn, whatever its velocity
should_note_on_AnyVelocity(self) ==
    IF self.tag = "NoteOn" THEN Some(<<self.note_number, self.velocity>>) ELSE None

\* ChannelVoiceMessage::should_note_on(&self)
should_note_on(self) ==
    IF self.tag = "NoteOn"
    THEN LET velocity == self.velocity
         IN  IF velocity # 0 THEN Some(<<self.note_number, self.velocity>>) ELSE None
    ELSE None

\* ChannelVoiceMessage::should_note_off(&self)
should_note_off(self) ==
    IF self.tag = "NoteOn"
    THEN LET velocity == self.velocity
         IN  IF velocity = 0 THEN Some(<<self.note_number, self.velocity>>) ELSE None
    ELSE IF self.tag = "NoteOff"
    THEN Some(<<self.note_number, self.velocity>>)
    ELSE None

\* cvm::PitchBendChange::is_centered(&self): u16::from(self.value) == 0x2000
is_centered(self) == self.value = 8192

\* A call that has not returned yet.
Pending == [tag |-> "Pending"]

\* A call of function fn on value, with what it returned.
Call(fn, value, ret) == [fn |-> fn, value |-> value, ret |-> ret]

\* Data bytes drawn where the other data byte runs over its whole range.
SomeData == {0, 64, 127}

\* The complete Channel messages SpecDecode starts from: every velocity for
\* NoteOff and NoteOn, every first data byte under status nibble B, every
\* pair of data bytes for PitchBendChange, a few for the other statuses.
DecodeInputs ==
    {<<s, d1, d2>> : s \in {128, 144}, d1 \in SomeData, d2 \in 0..127}
        \cup {<<160, d1, d2>> : d1 \in SomeData, d2 \in SomeData}
        \cup {<<179, d1, d2>> : d1 \in 0..127, d2 \in SomeData}
        \cup {<<s, d1>> : s \in {197, 208}, d1 \in SomeData}
        \cup {<<224, d1, d2>> : d1 \in 0..127, d2 \in 0..127}

\* Either a parser, fresh or with the message's status as running status,
\* and a buffer that holds one complete Channel message (without its status
\* byte under running status); or a pending call of Unsigned14::try_from on
\* any two bytes.
InitDecode ==
    /\ outcome = NoOutcome
    /\ pc = "ready"
    /\ streams = Idle
    /\ incremental = Idle
    /\ onepass = Idle
    /\ \/ /\ call = Idle
          /\ \E m \in DecodeInputs :
                \/ running_status_byte = None /\ buf = m
                \/ running_status_byte = Some(Head(m)) /\ buf = Tail(m)
       \/ /\ running_status_byte = None
          /\ buf = <<>>
          /\ \E value \in (0..255) \X (0..255) :
                call = Call("Unsigned14::try_from", value, Pending)

\* The pending call of Unsigned14::try_from returns.
TryFromUnsigned14 ==
    /\ call # Idle
    /\ call.fn = "Unsigned14::try_from"
    /\ call.ret = Pending
    /\ call' = Call(call.fn, call.value, Unsigned14_try_from(call.value))
    /\ UNCHANGED parser_vars
    /\ UNCHANGED concat_vars

\* parse has returned a Channel Voice message.
DecodedVoice ==
    /\ pc = "returned"
    /\ outcome.status.tag = "Message"
    /\ outcome.status.message.tag = "Channel"
    /\ outcome.status.message.message.tag = "ChannelVoice"

\* The caller calls should_note_on on the decoded message.
ShouldNoteOn ==
    /\ DecodedVoice
    /\ call = Idle
    /\ call' = Call("should_note_on", outcome.status.message.message.voice,
                    should_note_on(outcome.status.message.message.voice))
    /\ UNCHANGED parser_vars
    /\ UNCHANGED concat_vars

\* The caller calls should_note_off on the decoded message.
ShouldNoteOff ==
    /\ DecodedVoice
    /\ call = Idle
    /\ call' = Call("should_note_off", outcome.status.message.message.voice,
                    should_note_off(outcome.status.message.message.voice))
    /\ UNCHANGED parser_vars
    /\ UNCHANGED concat_vars

\* The caller calls is_centered on the decoded PitchBendChange.
IsCentered ==
    /\ DecodedVoice
    /\ outcome.status.message.message.voice.tag = "PitchBendChange"
    /\ call = Idle
    /\ call' = Call("is_centered", outcome.status.message.message.voice,
                    is_centered(outcome.status.message.message.voice))
    /\ UNCHANGED parser_vars
    /\ UNCHANGED concat_vars

NextDecode ==
    \/ Parse
    \/ TryFromUnsigned14
    \/ ShouldNoteOn
    \/ ShouldNoteOff
    \/ IsCentered

SpecDecode == InitDecode /\ [][NextDecode]_vars

(***************************************************************************)
(* Vocabulary of the properties.                                           *)
(***************************************************************************)
\* The step in which parse is called on buf with the unprimed running status.
ParseStep == pc = "ready" /\ pc' # "ready"

\* parse has been called on buf (it returned outcome, or it panicked).
Called == pc # "ready"

IsRealTime(byte) == byte \in 248..255
IsChannelStatus(byte) == byte \in 128..239
IsDataByte(byte) == byte \in 0..127

MinOf(a, b) == IF a <= b THEN a ELSE b

\* Data bytes a status byte requires, as MIDI 1.0 fixes them: 2 for nibbles
\* 8, 9, A, B, E; 1 for C, D; 1, 2, 1 for 0xF1, 0xF2, 0xF3; otherwise 0.
RequiredDataBytes(s) ==
    IF s \div 16 \in {8, 9, 10, 11, 14} THEN 2
    ELSE IF s \div 16 \in {12, 13} THEN 1
    ELSE IF s \in {241, 243} THEN 1
    ELSE IF s = 242 THEN 2
    ELSE 0

\* Positions of b (from 1) at which the data bytes of the message in
\* progress are gathered: behind an explicit status byte, or from the first
\* byte on under running status; the whole rest of b for a SysEx.
GatherSpan(rs, b) ==
    IF b = <<>> THEN {}
    ELSE IF is_status_byte(b[1])
    THEN IF b[1] = 240 THEN 2..Len(b)
         ELSE 2..MinOf(Len(b), 1 + RequiredDataBytes(b[1]))
    ELSE IF rs # None THEN 1..MinOf(Len(b), RequiredDataBytes(rs[1]))
    ELSE {}

\* The input holds as many bytes as the message in progress requires (a SysEx
\* has no required length).
SpanComplete(rs, b) ==
    /\ b # <<>>
    /\ IF is_status_byte(b[1])
       THEN b[1] = 240 \/ Len(b) >= 1 + RequiredDataBytes(b[1])
       ELSE rs # None /\ Len(b) >= RequiredDataBytes(rs[1])

\* Positions of the span that hold the first byte with the high bit set
\* (empty, or one position).
Intruder(rs, b) ==
    {i \in GatherSpan(rs, b) :
        /\ is_status_byte(b[i])
        /\ \A j \in GatherSpan(rs, b) : j < i => ~is_status_byte(b[j])}

\* The variant names a status nibble selects.
VariantsOf(nibble) ==
    CASE nibble = 8 -> {"NoteOff"}
      [] nibble = 9 -> {"NoteOn"}
      [] nibble = 10 -> {"PolyphonicKeyPressureAftertouch"}
      [] nibble = 11 -> {"ControlChange", "ChannelMode"}
      [] nibble = 12 -> {"ProgramChange"}
      [] nibble = 13 -> {"ChannelPressureAftertouch"}
      [] nibble = 14 -> {"PitchBendChange"}
      [] OTHER -> {}

\* The variant of a Channel message.
VariantOf(m) ==
    IF m.message.tag = "ChannelMode" THEN "ChannelMode" ELSE m.message.voice.tag

\* The values a Channel message holds, in wire order (a 14-bit value as its
\* two septets, LSB first; a ChannelModeMessage as its discriminant).
FieldsOf(m) ==
    IF m.message.tag = "ChannelMode"
    THEN <<CHOOSE x \in 120..127 : ChannelModeMessage[x] = m.message.mode>>
    ELSE LET v == m.message.voice
         IN  CASE v.tag \in {"NoteOff", "NoteOn"} -> <<v.note_number, v.velocity>>
               [] v.tag = "PolyphonicKeyPressureAftertouch" -> <<v.note_number, v.value>>
               [] v.tag = "ControlChange" -> <<v.control_number, v.value>>
               [] v.tag = "ProgramChange" -> <<v.program_number>>
               [] v.tag = "ChannelPressureAftertouch" -> <<v.value>>
               [] v.tag = "PitchBendChange" -> <<v.value % 128, v.value \div 128>>

\* buf is exactly a Channel status byte followed by its required data bytes.
ExactChannelMessage(b) ==
    /\ b # <<>>
    /\ IsChannelStatus(b[1])
    /\ Len(b) = 1 + RequiredDataBytes(b[1])
    /\ \A i \in 2..Len(b) : IsDataByte(b[i])

\* The Channel round trip holds of the call made on buf.
RoundTrips ==
    /\ pc = "returned"
    /\ outcome.status.tag = "Message"
    /\ outcome.status.message.tag = "Channel"
    /\ outcome.status.message.channel = buf[1] % 16
    /\ VariantOf(outcome.status.message) \in VariantsOf(buf[1] \div 16)
    /\ FieldsOf(outcome.status.message) = Tail(buf)
    /\ outcome.bytes_consumed = Len(buf)
    /\ running_status_byte = Some(buf[1])

\* Inputs made of data bytes only: one or two of them, enough for every
\* Channel status.
DataOnlyInputs == UNION {[1..n -> {0, 120}] : n \in 1..2}

(***************************************************************************)
(* Properties.                                                             *)
(***************************************************************************)
\* C1: no call of Parser::parse ends in a panic; every anomaly is reported
\* in-band as an outcome.
C1_NoPanic == pc # "panicked"

\* C2: a call on exactly [s, d1..dn], s a Channel status byte with its n
\* required data bytes, returns Message(Channel) on channel s & 0x0F, of the
\* variant the high nibble selects, whose fields are d1..dn in wire order,
\* with bytes_consumed = 1 + n, and leaves running status = s.
C2_ChannelRoundTrip == (Called /\ ExactChannelMessage(buf)) => RoundTrips

\* The round trip of C2 for every message but Channel Mode (status nibble B
\* with a first data byte of 120..127).
ChannelVoiceRoundTrip ==
    (/\ Called
     /\ ExactChannelMessage(buf)
     /\ ~(buf[1] \div 16 = 11 /\ buf[2] >= 120)) => RoundTrips

\* C3: under running status s, an input that starts with the n data bytes s
\* requires returns the Message that parse([s] ++ input) returns, with
\* bytes_consumed = n, and running status is still s.
C3_RunningStatusDecoding ==
    [][(/\ ParseStep
        /\ running_status_byte # None
        /\ Len(buf) >= RequiredDataBytes(running_status_byte[1])
        /\ \A i \in 1..RequiredDataBytes(running_status_byte[1]) : IsDataByte(buf[i]))
       => LET s == running_status_byte[1]
              explicit == Parser_parse(running_status_byte, <<s>> \o buf).result
          IN  /\ pc' = "returned"
              /\ ~IsPanic(explicit)
              /\ explicit.status.tag = "Message"
              /\ outcome'.status = explicit.status
              /\ outcome'.bytes_consumed = RequiredDataBytes(s)
              /\ running_status_byte' = Some(s)]_vars

\* A running-status decode of the first of two data-only messages in buf.
C3_Witness ==
    /\ pc = "returned"
    /\ running_status_byte # None
    /\ Len(buf) = 4
    /\ \A i \in 1..4 : IsDataByte(buf[i])
    /\ outcome.status.tag = "Message"
    /\ outcome.bytes_consumed = 2

\* C4: when the first byte with the high bit set met while gathering data
\* bytes is a Real-Time status at offset k of the input, parse returns
\* InterruptingSystemRealTimeMessage { that Real-Time variant, byte_index k }
\* with bytes_consumed = 0 and leaves running status unchanged.  (Stated for
\* inputs that hold the required number of bytes; short inputs are C5's.)
C4_RealTimeInterruption ==
    [][\A i \in Intruder(running_status_byte, buf) :
        (ParseStep /\ SpanComplete(running_status_byte, buf) /\ IsRealTime(buf[i]))
        => /\ pc' = "returned"
           /\ outcome' = MessageParseOutcome(0,
                  InterruptingSystemRealTimeMessage(SystemRealTimeMessage[buf[i]], i - 1))
           /\ running_status_byte' = running_status_byte]_vars

\* C5: a Real-Time byte inside the span of the message being decoded is
\* never dropped, delayed behind NeedMoreBytes or merged: the outcome of the
\* call is InterruptingSystemRealTimeMessage for that byte, also when fewer
\* data bytes than required are present.
C5_RealTimeNeverDelayed ==
    [][\A i \in Intruder(running_status_byte, buf) :
        (ParseStep /\ IsRealTime(buf[i]))
        => /\ pc' = "returned"
           /\ outcome'.status.tag = "InterruptingSystemRealTimeMessage"
           /\ outcome'.status.message = SystemRealTimeMessage[buf[i]]
           /\ outcome'.status.byte_index = i - 1]_vars

\* C6: when the first byte with the high bit set met while gathering data
\* bytes is a status byte that is not Real-Time (for a SysEx: nor 0xF7),
\* parse returns BrokenMessage with bytes_consumed = the number of input
\* bytes before the intruder, and running status is None afterwards.  (Stated
\* for inputs that hold the required number of bytes.)
C6_BrokenMessage ==
    [][\A i \in Intruder(running_status_byte, buf) :
        (/\ ParseStep
         /\ SpanComplete(running_status_byte, buf)
         /\ ~IsRealTime(buf[i])
         /\ ~(buf[1] = 240 /\ buf[i] = 247))
        => /\ pc' = "returned"
           /\ outcome' = MessageParseOutcome(i - 1, BrokenMessage)
           /\ running_status_byte' = None]_vars

\* C7: a call on an input that starts with a Real-Time byte returns and
\* leaves running status as it was, so every data-only input has the same
\* outcome after the call as before it.
C7_RunningStatusAcrossRealTime ==
    [][(ParseStep /\ buf # <<>> /\ IsRealTime(buf[1]))
       => /\ pc' = "returned"
          /\ running_status_byte' = running_status_byte
          /\ \A d \in DataOnlyInputs :
                Parser_parse(running_status_byte', d).result
                    = Parser_parse(running_status_byte, d).result]_vars

\* A Real-Time message emitted while running status is set.
C7_Witness ==
    /\ pc = "returned"
    /\ buf # <<>>
    /\ IsRealTime(buf[1])
    /\ running_status_byte # None
    /\ outcome.status.tag = "Message"

\* C8: a call on an input whose first byte b is 0xF8..0xFF, whatever
\* follows and whatever the running status, returns
\* Message(System(SystemRealTime(v))), v the variant with code b, with
\* bytes_consumed = 1.
C8_RealTimeFirstByte ==
    (Called /\ buf # <<>> /\ IsRealTime(buf[1]))
    => /\ pc = "returned"
       /\ outcome = MessageParseOutcome(1,
              Message(SystemRealTime(SystemRealTimeMessage[buf[1]])))

\* SystemReset decoded in front of another status byte, running status set.
C8_Witness ==
    /\ pc = "returned"
    /\ Len(buf) > 1
    /\ buf[1] = 255
    /\ is_status_byte(buf[2])
    /\ running_status_byte # None
    /\ outcome.status = Message(SystemRealTime("SystemReset"))

\* C9: every outcome parse returns has bytes_consumed <= input.len().
C9_ConsumptionBound ==
    pc = "returned" => outcome.bytes_consumed <= Len(buf)

\* A running-status decode that consumes the whole input.
C9_Witness ==
    /\ pc = "returned"
    /\ buf # <<>>
    /\ ~is_status_byte(buf[1])
    /\ outcome.status.tag = "Message"
    /\ outcome.bytes_consumed = Len(buf)

\* C10: every outcome parse returns has bytes_consumed > 0, or its status is
\* NeedMoreBytes or InterruptingSystemRealTimeMessage.
C10_ProgressOrPatience ==
    pc = "returned"
    => \/ outcome.bytes_consumed > 0
       \/ outcome.status.tag \in {"NeedMoreBytes", "InterruptingSystemRealTimeMessage"}

\* A stray data byte reported with nothing but itself consumed.
C10_Witness ==
    /\ pc = "returned"
    /\ outcome.status.tag = "UnexpectedDataByte"
    /\ outcome.bytes_consumed = 1
    /\ Len(buf) > 1

\* Both loops have come to their end, and stream A ended on a message
\* boundary: the buffer of the incremental loop was empty when B arrived.
BothFinishedOnBoundary ==
    /\ streams # Idle
    /\ Finished(incremental, 2)
    /\ Finished(onepass, 1)
    /\ incremental.boundary

\* C11: when stream A ends on a message boundary, the caller loop fed A and
\* then B has received the same sequence of messages, and its parser has
\* the same running status at the end, as the caller loop of a fresh parser
\* handed A ++ B in one buffer (and the two loops end the same way).
C11_ConcatenationEquivalence ==
    BothFinishedOnBoundary
    => /\ incremental.emitted = onepass.emitted
       /\ incremental.running_status_byte = onepass.running_status_byte
       /\ incremental.pc = onepass.pc

\* A Channel message ends A and B goes on under its running status: both
\* loops decoded two messages.
C11_Witness ==
    /\ BothFinishedOnBoundary
    /\ incremental.pc = "waiting"
    /\ streams.A # <<>>
    /\ streams.B # <<>>
    /\ ~is_status_byte(streams.B[1])
    /\ Len(incremental.emitted) = 2
    /\ incremental.running_status_byte # None

\* Positions k of buf (from 1) at which a SysEx that starts buf is complete:
\* buf[1] = 0xF0, buf[k] = 0xF7 and only data bytes lie between them.
SysExEnd(b) ==
    {k \in 2..Len(b) :
        /\ b[1] = SYSTEM_EXCLUSIVE
        /\ b[k] = SYSTEM_END_OF_SYSTEM_EXCLUSIVE_FLAG
        /\ \A j \in 2..(k - 1) : IsDataByte(b[j])}

\* C12: a call on [0xF0] ++ payload ++ [0xF7] (followed by anything), the
\* payload made of data bytes, returns Message(System(SystemExclusive))
\* carrying exactly the payload, with bytes_consumed = len(payload) + 2, and
\* running status is None afterwards.
C12_CompleteSysEx ==
    \A k \in SysExEnd(buf) :
        Called
        => /\ pc = "returned"
           /\ outcome.status.tag = "Message"
           /\ outcome.status.message.tag = "System"
           /\ outcome.status.message.message.tag = "SystemExclusive"
           /\ outcome.status.message.message.payload = SubSeq(buf, 2, k - 1)
           /\ outcome.bytes_consumed = k
           /\ running_status_byte = None

\* b starts with a System Common status byte (0xF1..0xF6) and the data
\* bytes it requires.
SystemCommonWithData(b) ==
    /\ b # <<>>
    /\ b[1] \in SYSTEM_COMMON_MIDI_TIME_QUARTER_FRAME..SYSTEM_COMMON_TUNE_REQUEST
    /\ Len(b) >= 1 + RequiredDataBytes(b[1])
    /\ \A i \in 2..(1 + RequiredDataBytes(b[1])) : IsDataByte(b[i])

\* C13: a call on a System Common status byte 0xF1..0xF6 followed by its
\* required data bytes (0xF1: 1, 0xF2: 2, 0xF3: 1, 0xF4..0xF6: 0) returns
\* Message(System(SystemCommon(_))) with bytes_consumed = 1 + the required
\* data count, and running status is None afterwards.
C13_SystemCommonDecoding ==
    (Called /\ SystemCommonWithData(buf))
    => /\ pc = "returned"
       /\ outcome.status.tag = "Message"
       /\ outcome.status.message.tag = "System"
       /\ outcome.status.message.message.tag = "SystemCommon"
       /\ outcome.bytes_consumed = 1 + RequiredDataBytes(buf[1])
       /\ running_status_byte = None

\* b starts with a complete non-Real-Time System message: a lone EOX, a
\* System Common status with its data bytes, or a terminated SysEx.
CompleteSystemMessage(b) ==
    /\ b # <<>>
    /\ \/ b[1] = SYSTEM_END_OF_SYSTEM_EXCLUSIVE_FLAG
       \/ SystemCommonWithData(b)
       \/ SysExEnd(b) # {}

\* C14: after every call whose input begins with a byte in 0xF0..0xF7,
\* running status is None, whatever it was before and whatever follows.
\* (Stated for inputs that hold the whole System message; a call that
\* returns NeedMoreBytes is the case of C19 and C20.)
C14_SystemStatusClearsRunningStatus ==
    (Called /\ CompleteSystemMessage(buf)) => running_status_byte = None

\* C15: in every reachable state running status is None or a Channel status
\* byte (high nibble 0x8..0xE); it is None at construction.
C15_RunningStatusIsChannelStatus ==
    \/ running_status_byte = None
    \/ \E s \in 128..239 : running_status_byte = Some(s)

\* A parser that has decoded a Channel message and remembers its status.
C15_Witness ==
    /\ pc = "returned"
    /\ running_status_byte # None
    /\ outcome.status.tag = "Message"
    /\ outcome.status.message.tag = "Channel"

\* C16: a call after which running status is Some(s), and not what it was
\* before, was made on an input whose first byte is s and returned
\* Message(Channel(_)); no other outcome (NeedMoreBytes, UnexpectedDataByte,
\* a Real-Time message, a decode under running status) sets running status
\* to a new status byte.
C16_RunningStatusSetOnlyByChannelMessage ==
    [][(/\ ParseStep
        /\ running_status_byte' # None
        /\ running_status_byte' # running_status_byte)
       => /\ buf # <<>>
          /\ running_status_byte' = Some(buf[1])
          /\ pc' = "returned"
          /\ outcome'.status.tag = "Message"
          /\ outcome'.status.message.tag = "Channel"]_vars

\* A Channel message decoded from its explicit status byte behind which
\* more bytes wait: running status is that status byte.
C16_Witness ==
    /\ pc = "returned"
    /\ Len(buf) > 3
    /\ is_status_byte(buf[1])
    /\ running_status_byte = Some(buf[1])
    /\ outcome.status.tag = "Message"
    /\ outcome.status.message.tag = "Channel"

\* C17: a call on an input whose first byte is 0xF7, in any parser state
\* and whatever follows, returns UnexpectedEox with bytes_consumed = 1, and
\* running status is None afterwards.
C17_UnexpectedEox ==
    (Called /\ buf # <<>> /\ buf[1] = SYSTEM_END_OF_SYSTEM_EXCLUSIVE_FLAG)
    => /\ pc = "returned"
       /\ outcome = MessageParseOutcome(1, UnexpectedEox)
       /\ running_status_byte = None

\* A stray EOX in front of a data byte and a status byte.
C17_Witness ==
    /\ pc = "returned"
    /\ Len(buf) > 2
    /\ buf[1] = SYSTEM_END_OF_SYSTEM_EXCLUSIVE_FLAG
    /\ IsDataByte(buf[2])
    /\ is_status_byte(buf[3])
    /\ outcome.status = UnexpectedEox

\* The outcomes the caller's loop receives from a parser with running
\* status rs for the buffer b, up to the call that returns NeedMoreBytes (not
\* listed) or panics (listed); r is what parse returns for b.
RECURSIVE Reports(_, _), ReportsWith(_, _)
Reports(rs, b) == ReportsWith(b, Parser_parse(rs, b))
ReportsWith(b, r) ==
    IF IsPanic(r.result) THEN <<r.result>>
    ELSE IF r.result.status.tag = "NeedMoreBytes" THEN <<>>
    ELSE <<r.result>> \o Reports(r.running_status_byte, AfterOutcome(b, r.result))

\* C18: a call made with running status None on an input whose first byte
\* is a data byte returns UnexpectedDataByte with bytes_consumed = 1,
\* whatever follows, and running status remains None; so a parser without
\* running status fed only data bytes reports UnexpectedDataByte once per
\* byte.
C18_UnexpectedDataByte ==
    [][(/\ ParseStep
        /\ running_status_byte = None
        /\ buf # <<>>
        /\ IsDataByte(buf[1]))
       => /\ pc' = "returned"
          /\ outcome' = MessageParseOutcome(1, UnexpectedDataByte)
          /\ running_status_byte' = None
          /\ (\A i \in 1..Len(buf) : IsDataByte(buf[i]))
                => Reports(None, buf)
                     = [i \in 1..Len(buf) |-> MessageParseOutcome(1, UnexpectedDataByte)]]_vars

\* A stray data byte reported in front of a status byte, no running status.
C18_Witness ==
    /\ pc = "returned"
    /\ running_status_byte = None
    /\ Len(buf) > 1
    /\ IsDataByte(buf[1])
    /\ is_status_byte(buf[2])
    /\ outcome = MessageParseOutcome(1, UnexpectedDataByte)

\* The status byte of the message in progress when parse is called on b
\* with running status rs: the explicit Channel or System Common status byte
\* that starts b, or the running status when b starts with a data byte
\* (a set: empty when no fixed-length message is in progress).
StatusInProgress(rs, b) ==
    IF b = <<>> THEN {}
    ELSE IF is_status_byte(b[1])
    THEN {b[1]} \cap ((128..239) \cup (SYSTEM_COMMON_MIDI_TIME_QUARTER_FRAME..SYSTEM_COMMON_TUNE_REQUEST))
    ELSE IF rs # None THEN {rs[1]} ELSE {}

\* The bytes of b behind the explicit status byte, or all of b under
\* running status.
DataPart(b) == IF is_status_byte(b[1]) THEN Tail(b) ELSE b

\* C19: when the message in progress (explicit Channel or System Common
\* status byte, or running status) requires n data bytes and the input holds
\* only a < n data bytes, and nothing else, behind the status byte, parse
\* returns NeedMoreBytes(Some(n - a)) with bytes_consumed = 0 and leaves
\* running status unchanged.
C19_ShortInput ==
    [][\A s \in StatusInProgress(running_status_byte, buf) :
        (/\ ParseStep
         /\ Len(DataPart(buf)) < RequiredDataBytes(s)
         /\ \A i \in 1..Len(DataPart(buf)) : IsDataByte(DataPart(buf)[i]))
        => /\ pc' = "returned"
           /\ outcome' = MessageParseOutcome(0,
                  NeedMoreBytes(Some(RequiredDataBytes(s) - Len(DataPart(buf)))))
           /\ running_status_byte' = running_status_byte]_vars

\* One data byte of two submitted under running status: one more is needed.
C19_Witness ==
    /\ pc = "returned"
    /\ running_status_byte # None
    /\ Len(buf) = 1
    /\ IsDataByte(buf[1])
    /\ outcome = MessageParseOutcome(0, NeedMoreBytes(Some(1)))

\* b is 0xF0 followed by data bytes only (or by nothing).
UnterminatedSysEx(b) ==
    /\ b # <<>>
    /\ b[1] = SYSTEM_EXCLUSIVE
    /\ \A i \in 2..Len(b) : IsDataByte(b[i])

\* C20: a call on [0xF0] followed by zero or more data bytes and no byte
\* with the high bit set returns NeedMoreBytes(None) with bytes_consumed = 0
\* and leaves the parser as it was, each time the buffer is submitted again
\* with more such bytes.
C20_UnterminatedSysEx ==
    [][(ParseStep /\ UnterminatedSysEx(buf))
       => /\ pc' = "returned"
          /\ outcome' = MessageParseOutcome(0, NeedMoreBytes(None))
          /\ running_status_byte' = running_status_byte
          /\ Reports(running_status_byte, buf) = <<>>]_vars

\* An unterminated SysEx with three payload bytes submitted to a parser
\* that has running status.
C20_Witness ==
    /\ pc = "returned"
    /\ UnterminatedSysEx(buf)
    /\ Len(buf) > 3
    /\ running_status_byte # None
    /\ outcome.status = NeedMoreBytes(None)

\* C21: in any parser state, a call on the empty input returns
\* NeedMoreBytes(None) with bytes_consumed = 0 and leaves running status
\* unchanged.
C21_EmptyInput ==
    [][(ParseStep /\ buf = <<>>)
       => /\ pc' = "returned"
          /\ outcome' = MessageParseOutcome(0, NeedMoreBytes(None))
          /\ running_status_byte' = running_status_byte]_vars

\* The empty buffer submitted to a parser that has running status.
C21_Witness ==
    /\ pc = "returned"
    /\ buf = <<>>
    /\ running_status_byte # None
    /\ outcome = MessageParseOutcome(0, NeedMoreBytes(None))

\* C22: a message under status nibble 0xB (explicit or running status) with
\* data bytes d1, d2 decodes to ChannelVoice(ControlChange{control_number =
\* d1, value = d2}) iff d1 is in 0..119, and to ChannelMode(m) iff d1 is in
\* 120..127, m being the mode whose code is d1 (120 AllSoundOff, 123
\* AllNotesOff, 127 PolyOn).
C22_ControlChangeVsChannelMode ==
    [][\A s \in StatusInProgress(running_status_byte, buf) :
        (/\ ParseStep
         /\ s \div 16 = CHANNEL_VOICE_MESSAGE_CONTROL_CHANGE_OR_CHANNEL_MODE_MESSAGE
         /\ Len(DataPart(buf)) >= 2
         /\ IsDataByte(DataPart(buf)[1])
         /\ IsDataByte(DataPart(buf)[2]))
        => /\ pc' = "returned"
           /\ outcome'.status.tag = "Message"
           /\ outcome'.status.message.tag = "Channel"
           /\ LET d1 == DataPart(buf)[1]
                  d2 == DataPart(buf)[2]
                  m == outcome'.status.message.message
              IN  /\ (m = [tag |-> "ChannelVoice",
                           voice |-> [tag |-> "ControlChange",
                                      control_number |-> d1, value |-> d2]])
                        <=> d1 \in 0..119
                  /\ m.tag = "ChannelMode" <=> d1 \in 120..127
                  /\ d1 \in 120..127 => m.mode = ChannelModeMessage[d1]
                  /\ d1 = 120 => m.mode = "AllSoundOff"
                  /\ d1 = 123 => m.mode = "AllNotesOff"
                  /\ d1 = 127 => m.mode = "PolyOn"]_vars

\* Controller 120 decoded as AllSoundOff under running status.
C22_Witness ==
    /\ pc = "returned"
    /\ Len(buf) = 2
    /\ buf[1] = 120
    /\ running_status_byte # None
    /\ outcome.status.tag = "Message"
    /\ outcome.status.message.message.tag = "ChannelMode"

\* b is exactly a Channel Mode message: a status byte with nibble 0xB, a
\* first data byte in 120..127 and a second data byte.
ExactChannelModeMessage(b) ==
    /\ ExactChannelMessage(b)
    /\ b[1] \div 16 = CHANNEL_VOICE_MESSAGE_CONTROL_CHANGE_OR_CHANNEL_MODE_MESSAGE
    /\ b[2] \in 120..127

\* C23: no data byte of a decoded message is dropped: the message decoded
\* from a Channel Mode message preserves its second data byte, so the same
\* input with another second data byte decodes to a different message.
C23_ChannelModeKeepsSecondByte ==
    (Called /\ ExactChannelModeMessage(buf))
    => /\ pc = "returned"
       /\ outcome.status.tag = "Message"
       /\ \A d \in (0..127) \ {buf[3]} :
             Parser_parse(None, <<buf[1], buf[2], d>>).result.status # outcome.status

\* C24: Unsigned14 built from wire bytes [lsb, msb] has the value
\* (msb << 7) | lsb, within 0..16383; its construction fails iff one of the
\* bytes is above 127; splitting a value v into (v & 0x7F, v >> 7) and
\* building it again returns v; the PitchBendChange decoded from
\* [0xEn, lsb, msb] carries that value; and is_centered() is true iff the
\* value is 0x2000, that is iff the data bytes are [0x00, 0x40].
C24_Unsigned14 ==
    /\ (call # Idle /\ call.fn = "Unsigned14::try_from" /\ call.ret # Pending)
       => LET lsb == call.value[1]
              msb == call.value[2]
          IN  /\ call.ret = Err <=> (lsb > 127 \/ msb > 127)
              /\ call.ret # Err
                 => /\ call.ret = Ok(msb * 128 + lsb)
                    /\ call.ret.ok \in 0..16383
                    /\ <<call.ret.ok % 128, call.ret.ok \div 128>> = call.value
                    /\ Unsigned14_try_from(<<call.ret.ok % 128, call.ret.ok \div 128>>)
                          = call.ret
    /\ (DecodedVoice /\ outcome.status.message.message.voice.tag = "PitchBendChange")
       => outcome.status.message.message.voice.value
             = DataPart(buf)[2] * 128 + DataPart(buf)[1]
    /\ (call # Idle /\ call.fn = "is_centered")
       => /\ call.ret <=> call.value.value = 8192
          /\ call.ret <=> DataPart(buf) = <<0, 64>>

\* The PitchBendChange decoded from [0xE0, 0x00, 0x40] is centered.
C24_Witness ==
    /\ call # Idle
    /\ call.fn = "is_centered"
    /\ call.ret = TRUE
    /\ buf = <<224, 0, 64>>

\* m is a NoteOn with a velocity other than 0.
EffectiveNoteOn(m) == m.tag = "NoteOn" /\ m.velocity # 0

\* m is a NoteOff, or a NoteOn with velocity 0.
EffectiveNoteOff(m) == m.tag = "NoteOff" \/ (m.tag = "NoteOn" /\ m.velocity = 0)

\* C25: for every ChannelVoiceMessage m, should_note_on(m) is
\* Some((note, velocity)) iff m is a NoteOn with velocity != 0, and
\* should_note_off(m) is Some((note, velocity)) iff m is a NoteOff or a
\* NoteOn with velocity 0; the two are never both Some, and for a NoteOn or
\* NoteOff exactly one of them is Some.
C25_EffectiveNoteOnOff ==
    /\ (call # Idle /\ call.fn = "should_note_on")
       => /\ call.ret # None <=> EffectiveNoteOn(call.value)
          /\ call.ret # None
                => call.ret = Some(<<call.value.note_number, call.value.velocity>>)
          /\ ~(call.ret # None /\ should_note_off(call.value) # None)
          /\ call.value.tag \in {"NoteOn", "NoteOff"}
                => (call.ret # None \/ should_note_off(call.value) # None)
    /\ (call # Idle /\ call.fn = "should_note_off")
       => /\ call.ret # None <=> EffectiveNoteOff(call.value)
          /\ call.ret # None
                => call.ret = Some(<<call.value.note_number, call.value.velocity>>)
          /\ ~(call.ret # None /\ should_note_on(call.value) # None)
          /\ call.value.tag \in {"NoteOn", "NoteOff"}
                => (call.ret # None \/ should_note_on(call.value) # None)

\* should_note_off called on a decoded NoteOn with velocity 0.
C25_Witness ==
    /\ call # Idle
    /\ call.fn = "should_note_off"
    /\ call.value.tag = "NoteOn"
    /\ call.ret = Some(<<call.value.note_number, 0>>)

\* The call status_byte.parse(slice) that Parser::parse makes for b with
\* running status rs, as the pair <<status_byte, slice>> (a set: empty when
\* Parser::parse makes no such call).
InnerCalls(rs, b) ==
    IF b = <<>> THEN {}
    ELSE IF is_status_byte(b[1]) THEN {<<b[1], Tail(b)>>}
    ELSE IF rs # None THEN {<<rs[1], b>>}
    ELSE {}

\* What the assertions of Parser::parse demand of the result inner of
\* status_byte.parse(slice); a panic inside it is a todo!().
InnerHolds(slice, inner) ==
    IF IsPanic(inner) THEN inner = Panic("todo")
    ELSE /\ inner.bytes_consumed <= Len(slice)
         /\ inner.status.tag = "NeedMoreBytes" => inner.bytes_consumed = 0

\* C26: the assertions and unreachable arms never fire, in any reachable
\* parser state and for any input: the result of the inner
\* StatusByte::parse has bytes_consumed <= the length of its slice, and 0
\* with NeedMoreBytes; parse_exact_number_of_bytes is handed the exact
\* number of bytes, none with the high bit set, so no conversion fails; a
\* StatusByte is built from a byte with the high bit set only, so no
\* unreachable!() arm is entered.  (The only panic of a call is a todo!().)
C26_AssertionsHold ==
    /\ pc = "panicked" => outcome = Panic("todo")
    /\ Called
       => \A c \in InnerCalls(running_status_byte, buf) :
             /\ is_status_byte(c[1])
             /\ InnerHolds(c[2], StatusByte_parse(c[1], c[2]))

\* A message decoded under running status in front of further bytes: the
\* assertions of the running-status branch and of
\* parse_exact_number_of_bytes were evaluated.
C26_Witness ==
    /\ pc = "returned"
    /\ Len(buf) > 2
    /\ IsDataByte(buf[1])
    /\ running_status_byte # None
    /\ outcome.status.tag = "Message"
    /\ outcome.bytes_consumed < Len(buf)

\* Data bytes appended to a buffer that is submitted again.
AppendedData == {0, 127}

\* C27: whenever parse returns NeedMoreBytes(Some(h)) for a buffer whose
\* bytes after a leading status byte are all data bytes, h is 1 or 2;
\* submitting the buffer again with fewer than h data bytes appended returns
\* NeedMoreBytes with the hint reduced by the number appended; and with
\* exactly h data bytes appended it returns, for a Channel status or under
\* running status, a Message with bytes_consumed = len(buf) + h.
C27_ExactHint ==
    (/\ pc = "returned"
     /\ outcome.status.tag = "NeedMoreBytes"
     /\ outcome.status.more # None
     /\ \A i \in 2..Len(buf) : IsDataByte(buf[i]))
    => LET h == outcome.status.more[1]
       IN  /\ h \in {1, 2}
           /\ \A k \in 1..(h - 1) : \A ext \in [1..k -> AppendedData] :
                 Parser_parse(running_status_byte, buf \o ext)
                    = ParseResult(running_status_byte,
                          MessageParseOutcome(0, NeedMoreBytes(Some(h - k))))
           /\ (IsChannelStatus(buf[1]) \/ IsDataByte(buf[1]))
                 => \A ext \in [1..h -> AppendedData] :
                       /\ ~IsPanic(Parser_parse(running_status_byte, buf \o ext).result)
                       /\ Parser_parse(running_status_byte, buf \o ext).result.status.tag
                             = "Message"
                       /\ Parser_parse(running_status_byte, buf \o ext).result.bytes_consumed
                             = Len(buf) + h

\* A Channel status byte and one of its two data bytes submitted: one more
\* byte is needed.
C27_Witness ==
    /\ pc = "returned"
    /\ Len(buf) = 2
    /\ IsChannelStatus(buf[1])
    /\ IsDataByte(buf[2])
    /\ outcome = MessageParseOutcome(0, NeedMoreBytes(Some(1)))

\* Length of the long inputs of C28: longer than a u8 can count.
LongLen == 300

\* The byte first followed by LongLen data bytes.
LongInput(first) == <<first>> \o [i \in 1..LongLen |-> 0]

\* The outcome r of parse has bytes_consumed <= 3 (nothing is said of a
\* call that panics).
AtMostThree(r) == IsPanic(r.result) \/ r.result.bytes_consumed <= 3

\* C28: every outcome parse returns has bytes_consumed <= 3, in any state
\* and for inputs of any length, inputs of more than 255 bytes included, so
\* the u8 addition 1 + outcome.bytes_consumed never wraps.
C28_ConsumedFitsU8 ==
    /\ pc = "returned" => outcome.bytes_consumed <= 3
    /\ Called
       => \A c \in InnerCalls(running_status_byte, buf) :
             \/ IsPanic(StatusByte_parse(c[1], c[2]))
             \/ 1 + StatusByte_parse(c[1], c[2]).bytes_consumed <= 3
    /\ (pc = "ready" /\ buf = <<>>)
       => \A first \in FirstBytes :
             AtMostThree(Parser_parse(running_status_byte, LongInput(first)))

\* A three-byte message decoded in front of another byte.
C28_Witness ==
    /\ pc = "returned"
    /\ Len(buf) > 3
    /\ outcome.status.tag = "Message"
    /\ outcome.bytes_consumed = 3

====
